---- MODULE Spec2Model ----
(***************************************************************************)
(* A model of genpass (src/main.go): the character set, the configuration  *)
(* validation, the entropy source, the rejection sampler, and the          *)
(* Generate / GenerateBatch / GenerateStream operations of CryptoGenerator *)
(* with their goroutines.                                                  *)
(***************************************************************************)
EXTENDS Integers, Sequences, FiniteSets, TLC

(***************************************************************************)
(* Program constants.                                                      *)
(***************************************************************************)
GeneratorHyphenated == 1
GeneratorCompact == 2
maxBatchSize == 1000
maxStringLength == 1024
maxCharsetLen == 256
maxWorkers == 32
maxRetries == 10
partLength == 6
partCount == 3
Hyphen == 45

(***************************************************************************)
(* Bounds of the model.                                                    *)
(***************************************************************************)
\* width of the random word (64 in the program)
WordBits == 8
\* largest Length and Count explored
MaxLength == 2
MaxCount == 2
\* largest number of times one stream sequence is iterated
MaxRuns == 2

RECURSIVE Pow2(_)
Pow2(k) == IF k = 0 THEN 1 ELSE 2 * Pow2(k - 1)

\* ^uint64(0), at the model's word width
MaxUint == Pow2(WordBits) - 1
Words == 0..MaxUint

RECURSIVE BitAnd(_, _)
BitAnd(a, b) ==
    IF a = 0 \/ b = 0 THEN 0
    ELSE (a % 2) * (b % 2) + 2 * BitAnd(a \div 2, b \div 2)

\* what a panicking byte read yields (no byte value)
Panic == 0 - 1

(***************************************************************************)
(* CharacterSet                                                            *)
(***************************************************************************)
\* One iteration of the loop of NewCharacterSet.  unique := chars[:0]
\* shares the array of chars, so append writes into the array the range
\* loop is reading: st.arr is that array, st.ulen = len(unique), i the
\* index read (1-based).  early says that some append wrote an element
\* of the array that the loop had not read yet.

\* dedupStep appending the bytes already seen too
dedupStepKeepAll(st, i) ==
    [arr |-> [st.arr EXCEPT ![st.ulen + 1] = st.arr[i]],
     ulen |-> st.ulen + 1,
     seen |-> st.seen \cup {st.arr[i]},
     early |-> st.early \/ st.ulen + 1 > i]

dedupStep(st, i) ==
    IF st.arr[i] \in st.seen THEN st
    ELSE [arr |-> [st.arr EXCEPT ![st.ulen + 1] = st.arr[i]],
          ulen |-> st.ulen + 1,
          seen |-> st.seen \cup {st.arr[i]},
          early |-> st.early \/ st.ulen + 1 > i]

RECURSIVE dedupRange(_, _, _)
\* the iterations lo..hi of the loop, in order
dedupRange(st, lo, hi) ==
    IF lo > hi THEN st
    ELSE IF lo = hi THEN dedupStep(st, lo)
    ELSE LET mid == (lo + hi) \div 2
             left == dedupRange(st, lo, mid)
         IN IF left.ulen >= 0 THEN dedupRange(left, mid + 1, hi) ELSE left

\* the state of the loop at its end
dedupEnd(s) ==
    dedupRange([arr |-> s, ulen |-> 0, seen |-> {}, early |-> FALSE], 1, Len(s))

dedupLoop(s) ==
    LET st == dedupEnd(s)
    IN SubSeq(st.arr, 1, st.ulen)

\* charsetMask giving a mask to every length
charsetMaskAlways(n) == IF n > 0 THEN n - 1 ELSE 0

\* charsetMask without the test len > 0
charsetMaskNoGuard(n) == IF BitAnd(n, n - 1) = 0 THEN n - 1 ELSE 0

charsetMask(n) == IF n > 0 /\ BitAnd(n, n - 1) = 0 THEN n - 1 ELSE 0

NewCharacterSet(s) ==
    LET unique == dedupLoop(s)
    IN [nil |-> FALSE, chars |-> unique, mask |-> charsetMask(Len(unique))]

\* a nil *CharacterSet
NilCharset == [nil |-> TRUE, chars |-> <<>>, mask |-> 0]

CharsetLen(cs) == Len(cs.chars)

\* CharacterSet.At: sequences are 1-based, Go slices 0-based.  A modulo by
\* len(cs.chars) = 0 is a run-time panic.
\* atIndex is the (0-based) index At computes; indexing cs.chars with an
\* index out of its range is a run-time panic too.

\* atIndex without the modulo
atIndexNoMod(cs, i) ==
    IF cs.mask # 0 THEN BitAnd(i, cs.mask)
    ELSE IF Len(cs.chars) = 0 THEN Panic
    ELSE i

atIndex(cs, i) ==
    IF cs.mask # 0 THEN BitAnd(i, cs.mask)
    ELSE IF Len(cs.chars) = 0 THEN Panic
    ELSE i % Len(cs.chars)

At(cs, i) ==
    LET k == atIndex(cs, i)
    IN IF k < 0 \/ k >= Len(cs.chars) THEN Panic ELSE cs.chars[k + 1]

(***************************************************************************)
(* GeneratorConfig.Validate                                                *)
(***************************************************************************)
ErrLength == "invalid length"
ErrCount == "invalid count"
ErrEmptyCharset == "charset cannot be empty"
ErrCharsetTooLarge == "charset too large"

\* validateErrs without the check of Length
validateErrsNoLength(gc) ==
    (IF gc.Count <= 0 \/ gc.Count > maxBatchSize THEN <<ErrCount>> ELSE <<>>)
    \o (IF gc.Charset.nil THEN <<ErrEmptyCharset>>
        ELSE IF CharsetLen(gc.Charset) = 0 THEN <<ErrEmptyCharset>>
        ELSE IF CharsetLen(gc.Charset) > maxCharsetLen THEN <<ErrCharsetTooLarge>>
        ELSE <<>>)

\* validateErrs accepting a Count of 0
validateErrsZeroCount(gc) ==
    (IF gc.Length <= 0 \/ gc.Length > maxStringLength THEN <<ErrLength>> ELSE <<>>)
    \o (IF gc.Count < 0 \/ gc.Count > maxBatchSize THEN <<ErrCount>> ELSE <<>>)
    \o (IF gc.Charset.nil THEN <<ErrEmptyCharset>>
        ELSE IF CharsetLen(gc.Charset) = 0 THEN <<ErrEmptyCharset>>
        ELSE IF CharsetLen(gc.Charset) > maxCharsetLen THEN <<ErrCharsetTooLarge>>
        ELSE <<>>)

validateErrs(gc) ==
    (IF gc.Length <= 0 \/ gc.Length > maxStringLength THEN <<ErrLength>> ELSE <<>>)
    \o (IF gc.Count <= 0 \/ gc.Count > maxBatchSize THEN <<ErrCount>> ELSE <<>>)
    \o (IF gc.Charset.nil THEN <<ErrEmptyCharset>>
        ELSE IF CharsetLen(gc.Charset) = 0 THEN <<ErrEmptyCharset>>
        ELSE IF CharsetLen(gc.Charset) > maxCharsetLen THEN <<ErrCharsetTooLarge>>
        ELSE <<>>)

\* validateWorkers leaving a Workers that is not positive
validateWorkersNoDefault(w, ncpu) ==
    IF w > maxWorkers THEN maxWorkers ELSE w

validateWorkers(w, ncpu) ==
    IF w <= 0 THEN ncpu
    ELSE IF w > maxWorkers THEN maxWorkers
    ELSE w

\* Validate writes gc.Workers and returns the joined errors (<<>> is nil).
Validate(gc, ncpu) ==
    [gc |-> [gc EXCEPT !.Workers = validateWorkers(gc.Workers, ncpu)],
     errs |-> validateErrs(gc)]

\* Application.parseConfig, from the parsed flag values on.
parseConfig(typ, length, count, raw, parallel, workers, ncpu) ==
    LET charset == NewCharacterSet(raw) IN
    IF CharsetLen(charset) = 0
    THEN [ok |-> FALSE, gc |-> <<>>, errs |-> <<ErrEmptyCharset>>]
    ELSE LET v == Validate([Type |-> typ, Length |-> length, Count |-> count,
                            Charset |-> charset, Parallel |-> parallel,
                            Workers |-> workers], ncpu)
         IN [ok |-> v.errs = <<>>, gc |-> <<v.gc>>, errs |-> v.errs]

(***************************************************************************)
(* The rejection sampler of generateSecureString, for one character.       *)
(***************************************************************************)
\* maxValid without the remainder taken off
maxValidNoReduce(cs) == MaxUint

\* maxValid := ^uint64(0) - (^uint64(0) % uint64(charset.Len()))
maxValid(cs) == MaxUint - (MaxUint % CharsetLen(cs))

\* capReached one retry late
capReachedLate(retries) == retries > maxRetries

\* if retries >= maxRetries, inside the loop for idx >= maxValid
capReached(retries) == retries >= maxRetries

(***************************************************************************)
(* State.                                                                  *)
(***************************************************************************)
VARIABLES
    op,          \* the caller's operation: "Generate", "Batch" or "Stream"
    config,      \* the *GeneratorConfig the caller passes (shared)
    numCPU,      \* runtime.NumCPU()
    poolCap,     \* cap(cg.workers)
    ctxDone,     \* the caller's context is cancelled
    ctxAtStart,  \* it was cancelled before the call
    tape,        \* the values of the first reads of the OS random stream
    tapeTail,    \* the value of every later read
    osPos,       \* number of rand.Read calls made
    es,          \* EntropySource: health, stats.generated, stats.errors
    slots,       \* len(cg.workers)
    stats,       \* CryptoGenerator.stats: generated, errors
    top,         \* the caller's operation: position, errgroup, results
    gen,         \* the Generate calls, by index
    rt,          \* the generateSecureString calls, by Generate call and part
    fnPc, fnIn, fnOut   \* a pure function applied to an input

envVars == <<op, numCPU, poolCap, ctxAtStart, tape, tapeTail>>
fnVars == <<fnPc, fnIn, fnOut>>
vars == <<op, config, numCPU, poolCap, ctxDone, ctxAtStart, tape, tapeTail,
          osPos, es, slots, stats, top, gen, rt, fnPc, fnIn, fnOut>>

TaskIds == 0..(MaxCount - 1)
Parts == 0..(partCount - 1)

(***************************************************************************)
(* Errors: the kind of the innermost error, and the indices the wrappers   *)
(* "generating string %d" and "generating part %d" add.                    *)
(***************************************************************************)
E(kind) == [kind |-> kind, task |-> 0 - 1, part |-> 0 - 1]
NoErr == E("nil")
ErrCanceled == E("context canceled")
ErrUnhealthy == E("entropy source is unhealthy")
ErrRead == E("failed to generate random bytes")
ErrRetries == E("too many retries in random sampling")
ErrInvalidConfig == E("invalid config")
ErrLengthPositive == E("length must be positive")
wrapPart(e, g) == [e EXCEPT !.part = g]
wrapTask(e, i) == [e EXCEPT !.task = i]

(***************************************************************************)
(* EntropySource                                                           *)
(***************************************************************************)
wordBytes == 8

TapeAt(k) == IF k <= Len(tape) THEN tape[k] ELSE tapeTail

\* GenerateUint64 counting the bytes of a failed read too
GenerateUint64CountsFailed(e, osOk, word) ==
    IF ~e.health
    THEN [es |-> e, read |-> FALSE, val |-> 0, err |-> ErrUnhealthy]
    ELSE IF ~osOk
    THEN [es |-> [e EXCEPT !.errors = @ + 1, !.generated = @ + wordBytes,
                           !.health = FALSE],
          read |-> TRUE, val |-> 0, err |-> ErrRead]
    ELSE [es |-> [e EXCEPT !.generated = @ + wordBytes],
          read |-> TRUE, val |-> word, err |-> NoErr]

\* GenerateUint64 without the test of the health flag
GenerateUint64NoHealth(e, osOk, word) ==
    IF ~osOk
    THEN [es |-> [e EXCEPT !.errors = @ + 1, !.health = FALSE],
          read |-> TRUE, val |-> 0, err |-> ErrRead]
    ELSE [es |-> [e EXCEPT !.generated = @ + wordBytes],
          read |-> TRUE, val |-> word, err |-> NoErr]

\* GenerateUint64 = GenerateBytes(8) and the little-endian decoding; osOk
\* says whether rand.Read succeeds, word is what it reads.
GenerateUint64(e, osOk, word) ==
    IF ~e.health
    THEN [es |-> e, read |-> FALSE, val |-> 0, err |-> ErrUnhealthy]
    ELSE IF ~osOk
    THEN [es |-> [e EXCEPT !.errors = @ + 1, !.health = FALSE],
          read |-> TRUE, val |-> 0, err |-> ErrRead]
    ELSE [es |-> [e EXCEPT !.generated = @ + wordBytes],
          read |-> TRUE, val |-> word, err |-> NoErr]

\* a call that is not made
noRead(e) == [es |-> e, read |-> FALSE, val |-> 0, err |-> NoErr]

(***************************************************************************)
(* generateSecureString, one call                                          *)
(***************************************************************************)
IdleRt == [pc |-> "idle", length |-> 0, indices |-> <<>>, k |-> 0, idx |-> 0,
           retries |-> 0, result |-> <<>>, err |-> NoErr]

\* startRt with one index too many
startRtLonger(length) ==
    IF length <= 0
    THEN [IdleRt EXCEPT !.pc = "done", !.err = ErrLengthPositive]
    ELSE [IdleRt EXCEPT !.pc = "fill", !.length = length,
                        !.indices = [j \in 1..(length + 1) |-> 0]]

\* entry: the length check and indices := make([]uint64, length)
startRt(length) ==
    IF length <= 0
    THEN [IdleRt EXCEPT !.pc = "done", !.err = ErrLengthPositive]
    ELSE [IdleRt EXCEPT !.pc = "fill", !.length = length,
                        !.indices = [j \in 1..length |-> 0]]

\* The character selection from position i on (1-based), idx being the
\* value at hand for position i and retries its redraws so far.  It runs
\* until the string is complete ("ok"), a fresh value is needed ("redraw")
\* or the retries are used up ("cap").
RECURSIVE selectChars(_, _, _, _, _, _)
selectChars(cs, indices, i, idx, retries, result) ==
    LET nextIdx == IF i + 1 <= Len(indices) THEN indices[i + 1] ELSE 0 IN
    IF i > Len(indices)
    THEN [st |-> "ok", i |-> i, idx |-> 0, retries |-> 0, result |-> result]
    ELSE IF cs.mask # 0
    THEN selectChars(cs, indices, i + 1, nextIdx, 0, Append(result, At(cs, idx)))
    ELSE IF idx >= maxValid(cs)
    THEN IF capReached(retries)
         THEN [st |-> "cap", i |-> i, idx |-> idx, retries |-> retries, result |-> result]
         ELSE [st |-> "redraw", i |-> i, idx |-> idx, retries |-> retries, result |-> result]
    ELSE selectChars(cs, indices, i + 1, nextIdx, 0, Append(result, At(cs, idx)))

\* the deferred loop that clears indices, registered just before the
\* successful return
clearIndices(indices) == [j \in 1..Len(indices) |-> 0]

\* The routine at its return: its locals are gone, the indices buffer is
\* left as it is.
returned(r, result, err) ==
    [r EXCEPT !.pc = "done", !.result = result, !.err = err,
              !.k = 0, !.idx = 0, !.retries = 0]

\* the routine after a run of selectChars
afterSelect(r, s) ==
    IF s.st = "ok"
    THEN returned([r EXCEPT !.indices = clearIndices(r.indices)], s.result, NoErr)
    ELSE IF s.st = "cap"
    THEN returned(r, <<>>, ErrRetries)
    ELSE [r EXCEPT !.pc = "redraw", !.result = s.result, !.k = s.i - 1,
                   !.idx = s.idx, !.retries = s.retries]

\* fillStep without the select on ctx.Done()
fillStepNoCtx(r, cs, done, g) ==
    IF g.err # NoErr THEN returned(r, <<>>, g.err)
    ELSE LET ind == [r.indices EXCEPT ![r.k + 1] = g.val] IN
         IF r.k + 1 < r.length
         THEN [r EXCEPT !.indices = ind, !.k = r.k + 1]
         ELSE afterSelect([r EXCEPT !.indices = ind],
                          selectChars(cs, ind, 1, ind[1], 0, <<>>))

\* one iteration of the loop that fills indices: done is ctx.Done(), g the
\* GenerateUint64 call made when it is not
fillStep(r, cs, done, g) ==
    IF done THEN returned(r, <<>>, ErrCanceled)
    ELSE IF g.err # NoErr THEN returned(r, <<>>, g.err)
    ELSE LET ind == [r.indices EXCEPT ![r.k + 1] = g.val] IN
         IF r.k + 1 < r.length
         THEN [r EXCEPT !.indices = ind, !.k = r.k + 1]
         ELSE afterSelect([r EXCEPT !.indices = ind],
                          selectChars(cs, ind, 1, ind[1], 0, <<>>))

\* one redraw of the rejection loop (retries < maxRetries here)
redrawStep(r, cs, g) ==
    IF g.err # NoErr THEN returned(r, <<>>, g.err)
    ELSE afterSelect(r, selectChars(cs, r.indices, r.k + 1, g.val,
                                    r.retries + 1, r.result))

(***************************************************************************)
(* CryptoGenerator.Generate, one call                                      *)
(***************************************************************************)
\* lateStart: the call was started by an errgroup whose context was already
\* cancelled; drew: the call has read the entropy source
IdleGen == [pc |-> "idle", slot |-> FALSE, healthAtStart |-> TRUE,
            lateStart |-> FALSE, drew |-> FALSE,
            parts |-> [g \in Parts |-> <<>>], herr |-> NoErr, hctxDone |-> FALSE,
            res |-> <<>>, err |-> NoErr]

IdleTop == [pc |-> "idle", i |-> 0, results |-> <<>>, limit |-> 0, launched |-> 0,
            active |-> 0, gerr |-> NoErr, gctxDone |-> FALSE, pairs |-> <<>>,
            stopped |-> FALSE, runs |-> 0, exhausted |-> FALSE, osAtRun |-> 0,
            firstFailed |-> 0 - 1, res |-> <<>>, err |-> NoErr]

\* the context a Generate call is given: the caller's, or in the parallel
\* path of GenerateBatch the errgroup's, derived from it
callCtxDone == ctxDone \/ (top.pc = "par" /\ top.gctxDone)

\* the context of the three parts of a hyphenated string: the errgroup's
\* of generateHyphenatedString
partCtxDone(i) == callCtxDone \/ gen[i].hctxDone

isCompact == config.Type = GeneratorCompact

\* the parts a Generate call runs: one generateSecureString for compact,
\* three for hyphenated (and for any other type)
partsOf == IF isCompact THEN {0} ELSE Parts

RECURSIVE Join(_, _)
\* strings.Join
Join(strs, sep) ==
    IF Len(strs) = 0 THEN <<>>
    ELSE IF Len(strs) = 1 THEN strs[1]
    ELSE strs[1] \o sep \o Join(Tail(strs), sep)

\* joinParts with an empty separator
joinPartsNoSep(parts) == Join([j \in 1..partCount |-> parts[j - 1]], <<>>)

joinParts(parts) == Join([j \in 1..partCount |-> parts[j - 1]], <<Hyphen>>)

\* storeResult into the first slot still empty
storeResultNext(results, i, res) ==
    LET free == {j \in 1..Len(results) : results[j] = <<>>}
    IN [results EXCEPT ![CHOOSE j \in free : \A m \in free : j <= m] = res]

\* the deferred release without the receive
releaseSlotNone(n) == n

\* defer func() { <-cg.workers }()
releaseSlot(n) == n - 1

\* results[i] = result
storeResult(results, i, res) == [results EXCEPT ![i + 1] = res]

\* batchReturn handing out the results next to the error
batchReturnPartial(results, err) == [res |-> results, err |-> err]

\* what GenerateBatch returns: nil and the error, or the results
batchReturn(results, err) ==
    IF err # NoErr THEN [res |-> <<>>, err |-> err]
    ELSE [res |-> results, err |-> NoErr]

\* the errgroup keeping the error of the latest task that failed
keepLast(old, new) == new

\* errgroup: g.errOnce.Do(func() { g.err = err; g.cancel(g.err) })
keepFirst(old, new) == IF old = NoErr THEN new ELSE old

\* What the caller of Generate call i does with (res, err): t and g are
\* top and gen once the call has returned.
afterCall(i, res, err, t, g) ==
    IF op = "Generate"
    THEN [top |-> [t EXCEPT !.pc = "done", !.res = <<res>>, !.err = err], gen |-> g]
    ELSE IF op = "Stream"
    THEN [top |-> [t EXCEPT !.pc = "yield",
                            !.pairs = Append(@, [res |-> res, err |-> err])],
          gen |-> g]
    ELSE IF t.pc = "seq"
    THEN IF err # NoErr
         THEN LET b == batchReturn(t.results, wrapTask(err, i)) IN
              [top |-> [t EXCEPT !.pc = "done", !.res = b.res, !.err = b.err],
               gen |-> g]
         ELSE LET rs == storeResult(t.results, i, res)
                  b == batchReturn(rs, NoErr)
              IN IF i + 1 < config.Count
                 THEN [top |-> [t EXCEPT !.results = rs, !.i = i + 1],
                       gen |-> [g EXCEPT ![i + 1].pc = "validate"]]
                 ELSE [top |-> [t EXCEPT !.results = rs, !.i = i + 1, !.pc = "done",
                                         !.res = b.res, !.err = b.err],
                       gen |-> g]
    ELSE \* the function given to g.Go, and errgroup's bookkeeping
         IF err # NoErr
         THEN [top |-> [t EXCEPT !.active = @ - 1,
                                 !.gerr = keepFirst(@, wrapTask(err, i)),
                                 !.firstFailed = IF t.gctxDone THEN @ ELSE i,
                                 !.gctxDone = TRUE],
               gen |-> g]
         ELSE [top |-> [t EXCEPT !.active = @ - 1,
                                 !.results = storeResult(@, i, res)],
               gen |-> g]

\* Generate call i returns (res, err)
returnCall(i, res, err) ==
    LET g == [gen EXCEPT ![i].pc = "done", ![i].slot = FALSE,
                         ![i].res = res, ![i].err = err]
        a == afterCall(i, res, err, top, g)
    IN top' = a.top /\ gen' = a.gen

\* config.Validate() at the head of Generate; healthAtStart records the
\* health of the entropy source as the call starts
GenValidate(i) ==
    /\ gen[i].pc = "validate"
    /\ LET v == Validate(config, numCPU) IN
       /\ config' = v.gc
       /\ IF v.errs # <<>>
          THEN /\ stats' = [stats EXCEPT !.errors = @ + 1]
               /\ LET g == [gen EXCEPT ![i].pc = "done", ![i].slot = FALSE,
                                       ![i].healthAtStart = es.health,
                                       ![i].res = <<>>, ![i].err = ErrInvalidConfig]
                      a == afterCall(i, <<>>, ErrInvalidConfig, top, g)
                  IN top' = a.top /\ gen' = a.gen
          ELSE /\ gen' = [gen EXCEPT ![i].pc = "select", ![i].healthAtStart = es.health]
               /\ UNCHANGED <<stats, top>>
    /\ UNCHANGED <<envVars, fnVars, ctxDone, osPos, es, slots, rt>>

\* the select of Generate without the case <-ctx.Done()
selectDoneNever(done) == FALSE

\* the case <-ctx.Done() of the select of Generate can be taken
selectDone(done) == done

\* select: case <-ctx.Done()
GenSelectDone(i) ==
    /\ gen[i].pc = "select"
    /\ selectDone(callCtxDone)
    /\ returnCall(i, <<>>, ErrCanceled)
    /\ UNCHANGED <<envVars, fnVars, config, ctxDone, osPos, es, slots, stats, rt>>

\* select: case cg.workers <- struct{}{}, then the switch on config.Type up
\* to the start of the generateSecureString calls
GenSelectAcquire(i) ==
    /\ gen[i].pc = "select"
    /\ slots < poolCap
    /\ slots' = slots + 1
    /\ gen' = [gen EXCEPT ![i].pc = "run", ![i].slot = TRUE]
    /\ rt' = [rt EXCEPT ![i] = [g \in Parts |->
                 IF g \in partsOf
                 THEN startRt(IF isCompact THEN config.Length ELSE partLength)
                 ELSE IdleRt]]
    /\ UNCHANGED <<envVars, fnVars, config, ctxDone, osPos, es, stats, top>>

\* partReturn storing the part in the first group slot still empty
partReturnAppend(gi, g, r) ==
    IF r.pc # "done" \/ isCompact THEN gi
    ELSE IF r.err # NoErr
    THEN [gi EXCEPT !.herr = IF @ = NoErr THEN wrapPart(r.err, g) ELSE @,
                    !.hctxDone = TRUE]
    ELSE LET free == {h \in Parts : gi.parts[h] = <<>>}
         IN [gi EXCEPT !.parts[CHOOSE h \in free : \A m \in free : h <= m] = r.result]

\* the function given to g.Go in generateHyphenatedString, once its
\* generateSecureString call has returned
partReturn(gi, g, r) ==
    IF r.pc # "done" \/ isCompact THEN gi
    ELSE IF r.err # NoErr
    THEN [gi EXCEPT !.herr = IF @ = NoErr THEN wrapPart(r.err, g) ELSE @,
                    !.hctxDone = TRUE]
    ELSE [gi EXCEPT !.parts[g] = r.result]

\* one iteration of the loop that fills indices
RtFill(i, g, osOk) ==
    /\ rt[i][g].pc = "fill"
    /\ LET done == IF isCompact THEN callCtxDone ELSE partCtxDone(i)
           u == IF done THEN noRead(es) ELSE GenerateUint64(es, osOk, TapeAt(osPos + 1))
           r == fillStep(rt[i][g], config.Charset, done, u)
       IN /\ es' = u.es
          /\ osPos' = IF u.read THEN osPos + 1 ELSE osPos
          /\ rt' = [rt EXCEPT ![i][g] = r]
          /\ gen' = [gen EXCEPT ![i] = [partReturn(@, g, r) EXCEPT !.drew = @ \/ u.read]]
    /\ UNCHANGED <<envVars, fnVars, config, ctxDone, slots, stats, top>>

\* one redraw of the rejection loop
RtRedraw(i, g, osOk) ==
    /\ rt[i][g].pc = "redraw"
    /\ LET u == GenerateUint64(es, osOk, TapeAt(osPos + 1))
           r == redrawStep(rt[i][g], config.Charset, u)
       IN /\ es' = u.es
          /\ osPos' = IF u.read THEN osPos + 1 ELSE osPos
          /\ rt' = [rt EXCEPT ![i][g] = r]
          /\ gen' = [gen EXCEPT ![i] = [partReturn(@, g, r) EXCEPT !.drew = @ \/ u.read]]
    /\ UNCHANGED <<envVars, fnVars, config, ctxDone, slots, stats, top>>

\* the result of generateCompactString / generateHyphenatedString (g.Wait
\* and strings.Join), once every part has returned
callResult(i) ==
    IF isCompact THEN [res |-> rt[i][0].result, err |-> rt[i][0].err]
    ELSE IF gen[i].herr # NoErr THEN [res |-> <<>>, err |-> gen[i].herr]
    ELSE [res |-> joinParts(gen[i].parts), err |-> NoErr]

\* the end of Generate: the statistics, the deferred release of the slot
GenFinish(i) ==
    /\ gen[i].pc = "run"
    /\ \A g \in partsOf : rt[i][g].pc = "done"
    /\ LET c == callResult(i) IN
       /\ stats' = IF c.err # NoErr THEN [stats EXCEPT !.errors = @ + 1]
                   ELSE [stats EXCEPT !.generated = @ + 1]
       /\ LET g0 == [gen EXCEPT ![i].pc = "done", ![i].slot = FALSE,
                               ![i].res = IF c.err # NoErr THEN <<>> ELSE c.res,
                               ![i].err = c.err,
                               ![i].parts = IdleGen.parts, ![i].herr = NoErr,
                               ![i].hctxDone = FALSE]
              a == afterCall(i, IF c.err # NoErr THEN <<>> ELSE c.res, c.err, top, g0)
          IN top' = a.top /\ gen' = a.gen
    /\ slots' = releaseSlot(slots)
    /\ rt' = [rt EXCEPT ![i] = [g \in Parts |-> IdleRt]]
    /\ UNCHANGED <<envVars, fnVars, config, ctxDone, osPos, es>>

(***************************************************************************)
(* CryptoGenerator.GenerateBatch                                           *)
(***************************************************************************)
\* config.Validate(), results := make([]string, config.Count) and the
\* choice of the path
BatchValidate ==
    /\ op = "Batch" /\ top.pc = "validate"
    /\ LET v == Validate(config, numCPU) IN
       /\ config' = v.gc
       /\ IF v.errs # <<>>
          THEN /\ top' = [top EXCEPT !.pc = "done", !.res = <<>>, !.err = ErrInvalidConfig]
               /\ UNCHANGED gen
          ELSE IF v.gc.Count = 1 \/ ~v.gc.Parallel
          THEN /\ top' = [top EXCEPT !.pc = "seq", !.i = 0,
                                     !.results = [j \in 1..v.gc.Count |-> <<>>]]
               /\ gen' = [gen EXCEPT ![0].pc = "validate"]
          ELSE /\ top' = [top EXCEPT !.pc = "par", !.limit = v.gc.Workers,
                                     !.results = [j \in 1..v.gc.Count |-> <<>>]]
               /\ UNCHANGED gen
    /\ UNCHANGED <<envVars, fnVars, ctxDone, osPos, es, slots, stats, rt>>

\* the semaphore of the errgroup keeping one token back
goReadyStrict(active, limit) == active + 1 < limit

\* errgroup: g.sem <- token{} goes through while fewer than limit tasks
\* are active
goReady(active, limit) == active < limit

\* g.Go: blocks while limit tasks are active
BatchGo ==
    /\ op = "Batch" /\ top.pc = "par"
    /\ top.launched < config.Count
    /\ goReady(top.active, top.limit)
    /\ top' = [top EXCEPT !.launched = @ + 1, !.active = @ + 1]
    /\ gen' = [gen EXCEPT ![top.launched].pc = "validate",
                          ![top.launched].lateStart = top.gctxDone]
    /\ UNCHANGED <<envVars, fnVars, config, ctxDone, osPos, es, slots, stats, rt>>

\* g.Wait and the return
BatchWait ==
    /\ op = "Batch" /\ top.pc = "par"
    /\ top.launched >= config.Count
    /\ top.active = 0
    /\ LET b == batchReturn(top.results, top.gerr) IN
       top' = [top EXCEPT !.pc = "done", !.res = b.res, !.err = b.err]
    /\ UNCHANGED <<envVars, fnVars, config, ctxDone, osPos, es, slots, stats, gen, rt>>

(***************************************************************************)
(* CryptoGenerator.GenerateStream                                          *)
(***************************************************************************)
\* the loop condition counting one pull too many
streamMoreOffByOne(i, count) == i <= count

\* the loop condition i < config.Count
streamMore(i, count) == i < count

\* the head of the loop of the sequence: i < config.Count, the select on
\* ctx.Done() and the call of Generate
StreamPull ==
    /\ op = "Stream" /\ top.pc = "pull"
    /\ IF ~streamMore(top.i, config.Count)
       THEN top' = [top EXCEPT !.pc = "done"] /\ UNCHANGED gen
       ELSE IF ctxDone
       THEN /\ top' = [top EXCEPT !.pc = "done",
                               !.pairs = Append(@, [res |-> <<>>, err |-> ErrCanceled])]
            /\ UNCHANGED gen
       ELSE /\ top' = [top EXCEPT !.pc = "gen"]
            /\ gen' = [gen EXCEPT ![top.i].pc = "validate"]
    /\ UNCHANGED <<envVars, fnVars, config, ctxDone, osPos, es, slots, stats, rt>>

\* the loop going on whatever yield returned
StreamYieldIgnored(cont) ==
    /\ op = "Stream" /\ top.pc = "yield"
    /\ top' = [top EXCEPT !.pc = "pull", !.i = @ + 1, !.stopped = ~cont]
    /\ UNCHANGED <<envVars, fnVars, config, ctxDone, osPos, es, slots, stats, gen, rt>>

\* yield returns: cont is whether the consumer goes on
StreamYield(cont) ==
    /\ op = "Stream" /\ top.pc = "yield"
    /\ top' = IF cont THEN [top EXCEPT !.pc = "pull", !.i = @ + 1]
              ELSE [top EXCEPT !.pc = "done", !.stopped = TRUE]
    /\ UNCHANGED <<envVars, fnVars, config, ctxDone, osPos, es, slots, stats, gen, rt>>

\* The sequence GenerateStream returned is a function value: ranging over
\* it again calls the function again, whose loop starts at i := 0.  pairs
\* are the pairs of the current iteration, exhausted says that the previous
\* iteration ran to its end, osAtRun is the number of OS reads made before
\* this iteration.
StreamIterate ==
    /\ op = "Stream" /\ top.pc = "done"
    /\ top.runs < MaxRuns
    /\ top' = [top EXCEPT !.pc = "pull", !.i = 0, !.pairs = <<>>, !.stopped = FALSE,
                          !.runs = @ + 1, !.exhausted = ~top.stopped,
                          !.osAtRun = osPos]
    /\ gen' = [i \in TaskIds |-> IdleGen]
    /\ UNCHANGED <<envVars, fnVars, config, ctxDone, osPos, es, slots, stats, rt>>

(***************************************************************************)
(* The caller's context                                                    *)
(***************************************************************************)
Cancel ==
    /\ ~ctxDone
    /\ top.pc # "done"
    /\ ctxDone' = TRUE
    /\ UNCHANGED <<envVars, fnVars, config, osPos, es, slots, stats, top, gen, rt>>

(***************************************************************************)
(* The calls explored.                                                     *)
(***************************************************************************)
Types == {GeneratorHyphenated, GeneratorCompact}
Lengths == 0..MaxLength
Counts == 0..MaxCount
\* "", "ab" and "abac": an empty set, a set of two (a power of two) and a
\* set of three symbols
RawCharsets == {<<>>, <<97, 98>>, <<97, 98, 97, 99>>}
Charsets == {NewCharacterSet(raw) : raw \in RawCharsets}
\* values the OS random stream yields: the smallest two and the largest
EntropyVals == {0, 1, MaxUint}
Tapes == {<<v>> : v \in EntropyVals}
Tails == {0, MaxUint}
\* cap(cg.workers) and config.Workers
PoolCaps == {1, 2}
\* runtime.NumCPU() of the host of the calls explored
HostCPUs == 2
\* and that of a host with more CPUs than maxWorkers
BigHostCPUs == maxWorkers + 1

Configs(counts, parallels, workers) ==
    [Type : Types, Length : Lengths, Count : counts, Charset : Charsets,
     Parallel : parallels, Workers : workers]

\* A hyphenated call runs three concurrent routines of six draws each: the
\* calls that run them (a valid configuration, a context not cancelled at
\* the start) are explored with a stream that ends in accepted values, and
\* in a batch with one length, one character set, one worker slot and at
\* most two strings.  A Workers left at 0 is explored with the
\* configurations that fail validation and with the parallel batches of
\* DefaultedBatch, the host of BigHostCPUs with the latter only.
DefaultedBatch ==
    /\ op = "Batch" /\ config.Parallel /\ config.Workers = 0
    /\ config.Type = GeneratorCompact /\ config.Length = 1
    /\ config.Charset.mask # 0
    /\ tapeTail = 0

Explored ==
  /\ config.Workers > 0 \/ validateErrs(config) # <<>> \/ DefaultedBatch
  /\ numCPU = HostCPUs \/ (DefaultedBatch /\ validateErrs(config) = <<>>)
  /\
    \/ config.Type = GeneratorCompact
    \/ ctxDone
    \/ validateErrs(config) # <<>>
    \/ /\ tapeTail = 0
       /\ \/ op = "Generate"
          \/ /\ op = "Batch"
             /\ config.Length = 1
             /\ config.Count <= 2
             /\ config.Charset.mask # 0
             /\ config.Workers = 1
             /\ poolCap = 1

(***************************************************************************)
(* The pure functions, applied to inputs: NewCharacterSet and then the     *)
(* selection of one character, Validate, parseConfig.                      *)
(***************************************************************************)
\* the bytes 0, 1, ..., n - 1
Iota(n) == [i \in 1..n |-> i - 1]

\* raw character set strings: every length up to the 256 byte values, and
\* strings with repeated bytes
FnRaws == {Iota(n) : n \in 0..maxCharsetLen}
          \cup {<<97, 97>>, <<97, 98, 97>>, <<97, 98, 97, 99, 98>>, <<7, 7, 7, 3>>}
FnLengths == {0 - 1, 0, 1, 2, maxStringLength, maxStringLength + 1}
FnCounts == {0 - 1, 0, 1, 2, maxBatchSize, maxBatchSize + 1}
FnCharsets == {NilCharset} \cup {NewCharacterSet(raw) : raw \in {<<>>, <<97>>, <<97, 98, 97, 99>>, Iota(maxCharsetLen)}}
FnWorkers == {0 - 1, 0, 1, maxWorkers, maxWorkers + 1}
FnCPUs == {1, 4, maxWorkers + 1}
FnConfigs == [Type : Types, Length : FnLengths, Count : FnCounts, Charset : FnCharsets,
              Parallel : {TRUE}, Workers : FnWorkers]
\* random words tried on a character set: the ends of the range and the
\* values around the rejection limit
FnWords(cs) == {v \in {0, 1, 2, maxValid(cs) - 1, maxValid(cs), maxValid(cs) + 1, MaxUint - 1, MaxUint} :
                  v \in Words}

(***************************************************************************)
(* ByteBuffer: bb.buf as its bytes (their number is len(bb.buf)) and its   *)
(* capacity cap(bb.buf).                                                   *)
(***************************************************************************)
\* buf: make([]byte, 0, capacity)
NewByteBuffer(capacity) == [bytes |-> <<>>, cap |-> capacity]

\* the helper max of the program: cmp.Or(a, b), the first of its arguments
\* that is not zero
max(a, b) == IF a # 0 THEN a ELSE b

\* ByteBuffer.Grow: make gives newBuf exactly the capacity asked for
Grow(bb, n) ==
    IF bb.cap - Len(bb.bytes) < n
    THEN [bytes |-> bb.bytes, cap |-> max(2 * bb.cap, Len(bb.bytes) + n)]
    ELSE bb

\* ByteBuffer.Write: append allocates when the capacity left after Grow is
\* short of len(p), with a capacity of at least the new length (slack more)
Write(bb, p, slack) ==
    LET g == Grow(bb, Len(p)) IN
    [bytes |-> g.bytes \o p,
     cap |-> IF g.cap - Len(g.bytes) >= Len(p) THEN g.cap
             ELSE Len(g.bytes) + Len(p) + slack]

FnNone == [kind |-> "none", raw |-> <<>>, gc |-> [Type |-> 0, Length |-> 0, Count |-> 0,
           Charset |-> NilCharset, Parallel |-> FALSE, Workers |-> 0], ncpu |-> 0,
           draws |-> [first |-> 0, tail |-> 0, failAt |-> 0], otype |-> "",
           bb |-> NewByteBuffer(0), n |-> 0]
FnNoOut == [cs |-> NilCharset, word |-> 0, sel |-> [st |-> "none", i |-> 0, idx |-> 0,
            retries |-> 0, result |-> <<>>],
            gc |-> FnNone.gc, errs |-> <<>>, ok |-> FALSE, str |-> <<>>,
            bb |-> NewByteBuffer(0)]

(***************************************************************************)
(* The legacy program: generateRandomString.                               *)
(***************************************************************************)
\* lowerChars + upperChars + digits
alphanumericChars ==
    [i \in 1..62 |-> IF i <= 26 THEN 96 + i ELSE IF i <= 52 THEN 38 + i ELSE i - 5]

ErrLegacyLength == "length must be positive"
ErrLegacyCharset == "charset cannot be empty"
ErrLegacyRandom == "generating random number"

\* The draws of rand.Int(rand.Reader, n): the i-th one (1-based) fails if
\* i = d.failAt, and yields otherwise a value of 0..n-1, the smallest, the
\* middle or the largest as d.first (for i = 1) or d.tail says.
legacyDraw(d, i, n) == ((IF i = 1 THEN d.first ELSE d.tail) * (n - 1)) \div 2

\* generateRandomString accepting a length of 0
generateRandomStringZeroOk(length, charset, d) ==
    IF length < 0 THEN [str |-> <<>>, errs |-> <<ErrLegacyLength>>]
    ELSE IF Len(charset) = 0 THEN [str |-> <<>>, errs |-> <<ErrLegacyCharset>>]
    ELSE IF d.failAt \in 1..length THEN [str |-> <<>>, errs |-> <<ErrLegacyRandom>>]
    ELSE [str |-> [i \in 1..length |-> charset[legacyDraw(d, i, Len(charset)) + 1]],
          errs |-> <<>>]

\* generateRandomString: the loop stops at the first draw that fails;
\* string(result) copies the bytes, so clearing result afterwards leaves
\* the string returned as it is.
generateRandomString(length, charset, d) ==
    IF length <= 0 THEN [str |-> <<>>, errs |-> <<ErrLegacyLength>>]
    ELSE IF Len(charset) = 0 THEN [str |-> <<>>, errs |-> <<ErrLegacyCharset>>]
    ELSE IF d.failAt \in 1..length THEN [str |-> <<>>, errs |-> <<ErrLegacyRandom>>]
    ELSE [str |-> [i \in 1..length |-> charset[legacyDraw(d, i, Len(charset)) + 1]],
          errs |-> <<>>]

LegacyLengths == {0 - 1, 0, 1, 2, 5, 10, 1000}
LegacyCharsets == {<<>>, <<97>>, <<97, 98>>, <<97, 98, 97>>, alphanumericChars}
LegacyDraws == [first : 0..2, tail : 0..2, failAt : {0, 1, 2, 1000}]

\* result, err := generateRandomString(length, charset)
FnGenerateRandomString ==
    /\ fnPc = "in" /\ fnIn.kind = "legacy"
    /\ LET v == generateRandomString(fnIn.gc.Length, fnIn.raw, fnIn.draws) IN
       fnOut' = [fnOut EXCEPT !.str = v.str, !.errs = v.errs, !.ok = v.errs = <<>>]
    /\ fnPc' = "legacy"
    /\ UNCHANGED fnIn

(***************************************************************************)
(* The legacy program: generateString and the two formats.                 *)
(***************************************************************************)
TypeHyphenated == "hyphenated"
TypeCompact == "compact"
defaultLength == 15

ErrLegacyPart == "generating part"
ErrLegacyType == "unsupported output type"

\* the draws left for a call made after n draws of the same tape
drawsAfter(d, n) ==
    IF n = 0 THEN d
    ELSE [first |-> d.tail, tail |-> d.tail,
          failAt |-> IF d.failAt > n THEN d.failAt - n ELSE 0]

\* The loop of the legacy generateHyphenatedString from part g on
\* (0-based), parts being the strings appended so far: the first error
\* is returned wrapped, with no string.
RECURSIVE hyphenatedParts(_, _, _)
hyphenatedParts(g, parts, d) ==
    IF g >= partCount
    THEN [str |-> Join(parts, <<Hyphen>>), errs |-> <<>>]
    ELSE LET p == generateRandomString(partLength, alphanumericChars,
                                       drawsAfter(d, partLength * g))
         IN IF p.errs # <<>> THEN [str |-> <<>>, errs |-> <<ErrLegacyPart>> \o p.errs]
            ELSE hyphenatedParts(g + 1, Append(parts, p.str), d)

\* the legacy generateHyphenatedString()
generateHyphenatedString(d) == hyphenatedParts(0, <<>>, d)

\* generateCompactString handing a length that is not positive on
generateCompactStringNoDefault(length, d) ==
    generateRandomString(length, alphanumericChars, d)

\* the legacy generateCompactString(length)
generateCompactString(length, d) ==
    generateRandomString(IF length <= 0 THEN defaultLength ELSE length,
                         alphanumericChars, d)

\* the legacy generateString(outputType, length)
generateString(outputType, length, d) ==
    IF outputType = TypeHyphenated THEN generateHyphenatedString(d)
    ELSE IF outputType = TypeCompact THEN generateCompactString(length, d)
    ELSE [str |-> <<>>, errs |-> <<ErrLegacyType>>]

\* output types tried: the two formats, the empty string, an unknown name
\* and a format name in another case
LegacyTypes == {TypeHyphenated, TypeCompact, "", "invalid", "Compact"}

\* result, err := generateString(outputType, length)
FnGenerateString ==
    /\ fnPc = "in" /\ fnIn.kind = "legacyString"
    /\ LET v == generateString(fnIn.otype, fnIn.gc.Length, fnIn.draws) IN
       fnOut' = [fnOut EXCEPT !.str = v.str, !.errs = v.errs, !.ok = v.errs = <<>>]
    /\ fnPc' = "legacyString"
    /\ UNCHANGED fnIn

\* the buffers tried: every capacity up to 4 holding up to that many
\* bytes, and the numbers of bytes asked for
BufferCaps == 0..4
BufferBytes == <<97, 98, 99, 100>>
Buffers == {b \in [bytes : {SubSeq(BufferBytes, 1, l) : l \in 0..Len(BufferBytes)},
                   cap : BufferCaps] : Len(b.bytes) <= b.cap}
GrowSizes == 0..5

\* bb.Grow(n)
FnGrow ==
    /\ fnPc = "in" /\ fnIn.kind = "buffer"
    /\ fnOut' = [fnOut EXCEPT !.bb = Grow(fnIn.bb, fnIn.n)]
    /\ fnPc' = "grown"
    /\ UNCHANGED fnIn

\* bb.Write(p), p being fnIn.n bytes
FnWrite(slack) ==
    /\ fnPc = "in" /\ fnIn.kind = "buffer"
    /\ fnOut' = [fnOut EXCEPT !.bb = Write(fnIn.bb, [j \in 1..fnIn.n |-> 120], slack)]
    /\ fnPc' = "written"
    /\ UNCHANGED fnIn

InitFn ==
    /\ fnPc = "idle" /\ fnIn = FnNone /\ fnOut = FnNoOut

\* charset := NewCharacterSet(raw)
FnNewCharacterSet ==
    /\ fnPc = "in" /\ fnIn.kind = "charset"
    /\ fnOut' = [fnOut EXCEPT !.cs = NewCharacterSet(fnIn.raw)]
    /\ fnPc' = "charset"
    /\ UNCHANGED fnIn

\* the selection of the one character of a string of length 1 whose random
\* word is v
FnSelect(v) ==
    /\ fnPc = "charset"
    /\ CharsetLen(fnOut.cs) > 0
    /\ v \in FnWords(fnOut.cs)
    /\ fnOut' = [fnOut EXCEPT !.word = v,
                              !.sel = selectChars(fnOut.cs, <<v>>, 1, v, 0, <<>>)]
    /\ fnPc' = "selected"
    /\ UNCHANGED fnIn

\* err := gc.Validate()
FnValidate ==
    /\ fnPc = "in" /\ fnIn.kind = "config"
    /\ LET v == Validate(fnIn.gc, fnIn.ncpu) IN
       fnOut' = [fnOut EXCEPT !.gc = v.gc, !.errs = v.errs, !.ok = v.errs = <<>>]
    /\ fnPc' = "validated"
    /\ UNCHANGED fnIn

\* config, err := app.parseConfig()
FnParseConfig ==
    /\ fnPc = "in" /\ fnIn.kind = "parse"
    /\ LET g == fnIn.gc
           v == parseConfig(g.Type, g.Length, g.Count, fnIn.raw, g.Parallel, g.Workers, fnIn.ncpu)
       IN fnOut' = [fnOut EXCEPT !.gc = IF v.gc = <<>> THEN FnNone.gc ELSE v.gc[1],
                                 !.errs = v.errs, !.ok = v.ok]
    /\ fnPc' = "parsed"
    /\ UNCHANGED fnIn

Init ==
    /\ \/ /\ op = "Generate"
          /\ config \in Configs({0, 1}, {FALSE}, {0, 1})
          /\ poolCap = 1
          /\ top = [IdleTop EXCEPT !.pc = "call"]
          /\ gen = [i \in TaskIds |-> IF i = 0 THEN [IdleGen EXCEPT !.pc = "validate"]
                                      ELSE IdleGen]
       \/ /\ op = "Stream"
          /\ config \in Configs(Counts, {FALSE}, {1})
          /\ poolCap = 1
          /\ top = [IdleTop EXCEPT !.pc = "pull", !.runs = 1]
          /\ gen = [i \in TaskIds |-> IdleGen]
       \/ /\ op = "Batch"
          /\ config \in Configs(Counts, BOOLEAN, PoolCaps \cup {0})
          /\ poolCap \in PoolCaps
          /\ top = [IdleTop EXCEPT !.pc = "validate"]
          /\ gen = [i \in TaskIds |-> IdleGen]
    /\ numCPU \in {HostCPUs, BigHostCPUs}
    /\ ctxDone \in BOOLEAN
    /\ ctxAtStart = ctxDone
    /\ tape \in Tapes
    /\ tapeTail \in Tails
    /\ Explored
    /\ osPos = 0
    /\ es = [health |-> TRUE, generated |-> 0, errors |-> 0]
    /\ slots = 0
    /\ stats = [generated |-> 0, errors |-> 0]
    /\ rt = [i \in TaskIds |-> [g \in Parts |-> IdleRt]]
    /\ InitFn

Next ==
    \/ \E i \in TaskIds : GenValidate(i)
    \/ \E i \in TaskIds : GenSelectDone(i)
    \/ \E i \in TaskIds : GenSelectAcquire(i)
    \/ \E i \in TaskIds, g \in Parts, osOk \in BOOLEAN : RtFill(i, g, osOk)
    \/ \E i \in TaskIds, g \in Parts, osOk \in BOOLEAN : RtRedraw(i, g, osOk)
    \/ \E i \in TaskIds : GenFinish(i)
    \/ BatchValidate
    \/ BatchGo
    \/ BatchWait
    \/ StreamPull
    \/ \E cont \in BOOLEAN : StreamYield(cont)
    \/ StreamIterate
    \/ Cancel

Spec == Init /\ [][Next]_vars

(***************************************************************************)
(* Generate and GenerateBatch under fair scheduling: a goroutine that can  *)
(* take a step is scheduled, and a read of the OS random stream returns.   *)
(* The pool may have no slot at all (make(chan struct{}, 0)).              *)
(***************************************************************************)
LivePoolCaps == {0} \cup PoolCaps
\* the lengths of these calls: an invalid one, and one character, which
\* takes a compact call through the fill loop, the redraws and their cap
LiveLengths == {0, 1}

\* the three concurrent routines of a hyphenated string are run to their
\* end in a single Generate call with one character set and one stream of
\* random values, the batches being compact
LiveExplored ==
    \/ op = "Generate" /\ config.Charset.mask # 0 /\ tape[1] = 0
    \/ config.Type = GeneratorCompact
    \/ ctxDone
    \/ validateErrs(config) # <<>>

InitLive ==
    /\ \/ /\ op = "Generate"
          /\ config \in Configs({1}, {FALSE}, {1})
          /\ poolCap \in {0, 1}
          /\ top = [IdleTop EXCEPT !.pc = "call"]
          /\ gen = [i \in TaskIds |-> IF i = 0 THEN [IdleGen EXCEPT !.pc = "validate"]
                                      ELSE IdleGen]
       \/ /\ op = "Batch"
          /\ config \in Configs(Counts, BOOLEAN, PoolCaps)
          /\ poolCap \in LivePoolCaps
          /\ top = [IdleTop EXCEPT !.pc = "validate"]
          /\ gen = [i \in TaskIds |-> IdleGen]
    /\ numCPU = HostCPUs
    /\ ctxDone \in BOOLEAN
    /\ ctxAtStart = ctxDone
    /\ tape \in Tapes
    /\ tapeTail \in Tails
    /\ config.Length \in LiveLengths
    /\ Explored
    /\ LiveExplored
    /\ osPos = 0
    /\ es = [health |-> TRUE, generated |-> 0, errors |-> 0]
    /\ slots = 0
    /\ stats = [generated |-> 0, errors |-> 0]
    /\ rt = [i \in TaskIds |-> [g \in Parts |-> IdleRt]]
    /\ InitFn

\* a step of one of the goroutines of the call
Progress ==
    \/ \E i \in TaskIds : GenValidate(i)
    \/ \E i \in TaskIds : GenSelectDone(i)
    \/ \E i \in TaskIds : GenSelectAcquire(i)
    \/ \E i \in TaskIds, g \in Parts, osOk \in BOOLEAN : RtFill(i, g, osOk)
    \/ \E i \in TaskIds, g \in Parts, osOk \in BOOLEAN : RtRedraw(i, g, osOk)
    \/ \E i \in TaskIds : GenFinish(i)
    \/ BatchValidate
    \/ BatchGo
    \/ BatchWait

NextLive ==
    \/ Progress
    \/ Cancel

SpecLive == InitLive /\ [][NextLive]_vars /\ WF_vars(Progress)

\* no call of the generator is in progress
InitNoCall ==
    /\ op = "none"
    /\ config = FnNone.gc
    /\ numCPU = 1 /\ poolCap = 1
    /\ ctxDone = FALSE /\ ctxAtStart = FALSE
    /\ tape = <<0>> /\ tapeTail = 0 /\ osPos = 0
    /\ es = [health |-> TRUE, generated |-> 0, errors |-> 0]
    /\ slots = 0
    /\ stats = [generated |-> 0, errors |-> 0]
    /\ top = [IdleTop EXCEPT !.pc = "done"]
    /\ gen = [i \in TaskIds |-> IdleGen]
    /\ rt = [i \in TaskIds |-> [g \in Parts |-> IdleRt]]

mainVars == <<op, config, numCPU, poolCap, ctxDone, ctxAtStart, tape, tapeTail,
              osPos, es, slots, stats, top, gen, rt>>

InitFnSpec ==
    /\ InitNoCall
    /\ fnPc = "in"
    /\ fnOut = FnNoOut
    /\ \/ \E raw \in FnRaws : fnIn = [FnNone EXCEPT !.kind = "charset", !.raw = raw]
       \/ \E gc \in FnConfigs, ncpu \in FnCPUs :
              fnIn = [FnNone EXCEPT !.kind = "config", !.gc = gc, !.ncpu = ncpu]
       \/ \E gc \in FnConfigs, raw \in {<<>>, <<97>>, <<97, 98, 97>>} :
              /\ gc.Charset = NilCharset /\ gc.Workers = 1
              /\ fnIn = [FnNone EXCEPT !.kind = "parse", !.gc = gc, !.raw = raw, !.ncpu = 1]
       \/ \E length \in LegacyLengths, charset \in LegacyCharsets, d \in LegacyDraws :
              fnIn = [FnNone EXCEPT !.kind = "legacy", !.gc.Length = length,
                                    !.raw = charset, !.draws = d]
       \/ \E otype \in LegacyTypes, length \in LegacyLengths, d \in LegacyDraws :
              fnIn = [FnNone EXCEPT !.kind = "legacyString", !.otype = otype,
                                    !.gc.Length = length, !.draws = d]
       \/ \E bb \in Buffers, n \in GrowSizes :
              fnIn = [FnNone EXCEPT !.kind = "buffer", !.bb = bb, !.n = n]

NextFn ==
    \/ FnNewCharacterSet /\ UNCHANGED mainVars
    \/ (\E v \in Words : FnSelect(v)) /\ UNCHANGED mainVars
    \/ FnValidate /\ UNCHANGED mainVars
    \/ FnParseConfig /\ UNCHANGED mainVars
    \/ FnGenerateRandomString /\ UNCHANGED mainVars
    \/ FnGenerateString /\ UNCHANGED mainVars
    \/ FnGrow /\ UNCHANGED mainVars
    \/ (\E slack \in {0, 1} : FnWrite(slack)) /\ UNCHANGED mainVars

SpecFn == InitFnSpec /\ [][NextFn]_vars

(***************************************************************************)
(* Properties.                                                             *)
(***************************************************************************)
Range(s) == {s[j] : j \in 1..Len(s)}
CharsOf(cs) == Range(cs.chars)

\* Generate call i has returned a string
Succeeded(i) == gen[i].pc = "done" /\ gen[i].err = NoErr

\* the format XXXXXX-XXXXXX-XXXXXX over the character set cs
HyphenatedFormat(s, cs) ==
    /\ Len(s) = 20
    /\ \A j \in 1..Len(s) : IF j \in {7, 14} THEN s[j] = Hyphen ELSE s[j] \in CharsOf(cs)

\* the format of a compact string
CompactFormat(s, cs, length) == Len(s) = length /\ Range(s) \subseteq CharsOf(cs)

\* the configuration fails validation
InvalidConfig ==
    \/ config.Length < 1 \/ config.Length > 1024
    \/ config.Count < 1 \/ config.Count > 1000
    \/ config.Charset.nil \/ Len(config.Charset.chars) = 0

\* C1: a Generate call with Type = Compact that succeeds returns a string of
\* exactly config.Length characters, each a member of config.Charset,
\* whatever values the entropy source returned.
C1_CompactLengthAndCharset ==
    /\ \A i \in TaskIds :
          (isCompact /\ Succeeded(i)) =>
              CompactFormat(gen[i].res, config.Charset, config.Length)
    /\ (isCompact /\ op = "Generate" /\ top.pc = "done" /\ top.err = NoErr) =>
          CompactFormat(top.res[1], config.Charset, config.Length)

\* a compact string of the largest length, built on the modulo path after a
\* rejected value was redrawn
C1_Witness ==
    /\ op = "Generate" /\ isCompact /\ top.pc = "done" /\ top.err = NoErr
    /\ config.Length = MaxLength /\ config.Charset.mask = 0
    /\ Len(top.res[1]) = MaxLength
    /\ osPos > MaxLength

\* C2: every hyphenated generation that succeeds returns exactly 20
\* characters, three groups of 6 from the character set with '-' at the
\* 0-indexed positions 6 and 13, whatever config.Length and the entropy values.
C2_HyphenatedFormat ==
    /\ \A i \in TaskIds :
          (~isCompact /\ Succeeded(i)) => HyphenatedFormat(gen[i].res, config.Charset)
    /\ (~isCompact /\ op = "Generate" /\ top.pc = "done" /\ top.err = NoErr) =>
          HyphenatedFormat(top.res[1], config.Charset)

\* a hyphenated string returned for a Length that is not 6, holding two
\* different symbols
C2_Witness ==
    /\ op = "Generate" /\ ~isCompact /\ top.pc = "done" /\ top.err = NoErr
    /\ config.Length # partLength
    /\ Len(top.res[1]) = 20
    /\ {config.Charset.chars[1], config.Charset.chars[2]} \subseteq Range(top.res[1])

\* the selection of one character with the random word v
selectOne(cs, v) == selectChars(cs, <<v>>, 1, v, 0, <<>>)

\* the number of words that are accepted and select the symbol of index k
hits(cs, k) ==
    Cardinality({v \in Words : LET s == selectOne(cs, v)
                               IN s.st = "ok" /\ s.result = <<cs.chars[k + 1]>>})

\* C3: for every character set length n in 1..256 the number of random words
\* that are accepted and select index k is the same for every k in 0..n-1,
\* and on the path without a mask a word >= maxUint - (maxUint mod n) is
\* never used to select a character.
C3_Unbiased ==
    /\ (fnPc = "charset" /\ CharsetLen(fnOut.cs) \in 1..256) =>
          \A k \in 0..(CharsetLen(fnOut.cs) - 1) : hits(fnOut.cs, k) = hits(fnOut.cs, 0)
    /\ (fnPc = "selected" /\ fnOut.cs.mask = 0
          /\ fnOut.word >= MaxUint - (MaxUint % CharsetLen(fnOut.cs))) =>
          (fnOut.sel.st # "ok" /\ fnOut.sel.result = <<>>)

\* a word at the limit is rejected for a set whose length does not divide
\* the number of words
C3_Witness ==
    /\ fnPc = "selected" /\ fnOut.cs.mask = 0
    /\ (MaxUint + 1) % CharsetLen(fnOut.cs) # 0
    /\ fnOut.word = MaxUint - (MaxUint % CharsetLen(fnOut.cs))
    /\ fnOut.sel.st = "redraw"

\* the rejection limit of the configured character set
rejectLimit == MaxUint - (MaxUint % CharsetLen(config.Charset))

\* C4: for one character position at most 10 fresh values are redrawn after
\* the initial one; when the tenth redraw is rejected too the generation
\* fails with the excessive-rejection error and returns no string; a redraw
\* that is rejected never adds a character.
C4_RetryCap ==
    [][\A i \in TaskIds, g \in Parts :
          LET r == rt[i][g]
              r2 == rt'[i][g]
          IN /\ r.retries <= 10 /\ r2.retries <= 10
             /\ r.pc = "redraw" => r.retries < 10
             /\ (r.pc = "redraw" /\ r2 # r /\ es'.generated > es.generated
                   /\ TapeAt(osPos') >= rejectLimit) =>
                   IF r.retries = 9
                   THEN /\ r2.pc = "done" /\ r2.err = ErrRetries /\ r2.result = <<>>
                        /\ ~Succeeded(i)'
                   ELSE /\ r2.pc = "redraw" /\ r2.retries = r.retries + 1
                        /\ r2.result = r.result
             /\ (gen'[i].pc = "done" /\ gen'[i].err.kind = ErrRetries.kind) =>
                   gen'[i].res = <<>>]_vars

\* a Generate call failed with the excessive-rejection error after the
\* initial value and ten redraws for one position
C4_Witness ==
    /\ op = "Generate" /\ top.pc = "done"
    /\ top.err = ErrRetries /\ top.res = <<<<>>>>
    /\ osPos = 1 + 10

\* C5: for a configuration that fails validation, Generate, GenerateBatch
\* and every pull of GenerateStream return an error and no call reaches the
\* entropy source: its byte counter stays unchanged.
C5_InvalidConfigNoEntropy ==
    InvalidConfig =>
        /\ osPos = 0 /\ es.generated = 0 /\ es.errors = 0
        /\ \A i \in TaskIds : gen[i].pc = "done" => (gen[i].err # NoErr /\ gen[i].res = <<>>)
        /\ (top.pc = "done" /\ op = "Generate") => (top.err # NoErr /\ top.res = <<<<>>>>)
        /\ (top.pc = "done" /\ op = "Batch") => (top.err # NoErr /\ top.res = <<>>)
        /\ \A j \in 1..Len(top.pairs) :
              top.pairs[j].err # NoErr /\ top.pairs[j].res = <<>>

\* two pulls of a stream over an invalid configuration, each an error
C5_Witness ==
    /\ InvalidConfig /\ op = "Stream" /\ ~ctxDone
    /\ Len(top.pairs) = 2
    /\ \A j \in 1..2 : top.pairs[j].err = ErrInvalidConfig
    /\ es.generated = 0

\* C6: Validate returns an error exactly for the configurations with Length
\* outside 1..1024, Count outside 1..1000 or a nil or empty character set,
\* for both formats, and the errors depend on these three fields only.
C6_ValidateRejectsExactly ==
    fnPc = "validated" =>
        LET gc == fnIn.gc
            badLength == gc.Length < 1 \/ gc.Length > 1024
            badCount == gc.Count < 1 \/ gc.Count > 1000
            badCharset == gc.Charset.nil \/ Len(gc.Charset.chars) = 0
        IN /\ (fnOut.errs # <<>>) <=> (badLength \/ badCount \/ badCharset)
           /\ fnOut.ok <=> ~(badLength \/ badCount \/ badCharset)
           /\ Range(fnOut.errs) = (IF badLength THEN {ErrLength} ELSE {})
                                  \cup (IF badCount THEN {ErrCount} ELSE {})
                                  \cup (IF badCharset THEN {ErrEmptyCharset} ELSE {})

\* a Length one above the largest is rejected next to the largest Count,
\* which passes
C6_Witness ==
    /\ fnPc = "validated"
    /\ fnIn.gc.Length = 1025 /\ fnIn.gc.Count = 1000
    /\ fnIn.gc.Type = GeneratorCompact
    /\ fnOut.errs = <<ErrLength>>

\* C7, as stated: the constructor never returns a CharacterSet of length 0.
C7_ConstructorNeverEmpty ==
    fnPc = "charset" => CharsetLen(fnOut.cs) # 0

\* C7: NewCharacterSet never fails; for a raw string without symbols it
\* returns a CharacterSet of length 0 whose mask is 0, and it is parseConfig
\* and Validate that fail with the empty-charset error on such a set.
C7_EmptySetRejectedByCallers ==
    /\ (fnPc = "charset" /\ fnIn.raw = <<>>) =>
          fnOut.cs = [nil |-> FALSE, chars |-> <<>>, mask |-> 0]
    /\ (fnPc = "charset" /\ fnIn.raw # <<>>) => CharsetLen(fnOut.cs) > 0
    /\ (fnPc = "parsed" /\ fnIn.raw = <<>>) =>
          (~fnOut.ok /\ fnOut.errs = <<ErrEmptyCharset>>)
    /\ (fnPc = "validated" /\ ~fnIn.gc.Charset.nil /\ Len(fnIn.gc.Charset.chars) = 0) =>
          (~fnOut.ok /\ ErrEmptyCharset \in Range(fnOut.errs))

\* the constructor has returned a set of length 0 for the empty string
C7_Witness ==
    /\ fnPc = "charset" /\ fnIn.raw = <<>>
    /\ ~fnOut.cs.nil /\ CharsetLen(fnOut.cs) = 0

\* a string of the configured format
Conformant(s) ==
    IF isCompact THEN CompactFormat(s, config.Charset, config.Length)
    ELSE HyphenatedFormat(s, config.Charset)

\* C8: GenerateBatch returns either exactly config.Count strings of the
\* format and no error, or no results and an error, on the sequential and on
\* the parallel path, whichever string fails.
C8_BatchAllOrNothing ==
    (op = "Batch" /\ top.pc = "done") =>
        \/ /\ top.err = NoErr
           /\ Len(top.res) = config.Count
           /\ \A j \in 1..Len(top.res) : Conformant(top.res[j])
        \/ /\ top.err # NoErr
           /\ top.res = <<>>

\* a parallel batch whose one task returned a string and whose other task
\* failed on the entropy source: nothing is returned
C8_Witness ==
    /\ op = "Batch" /\ top.pc = "done" /\ top.limit > 0
    /\ top.err.kind = ErrRead.kind
    /\ \E i \in TaskIds : Succeeded(i) /\ top.results[i + 1] = gen[i].res
    /\ top.res = <<>>

\* C9: on the parallel path slot results[i] is written only by task i, as
\* it returns, and at most once, and a batch that succeeds returns in every
\* slot the string of its own task, whatever the order of completion.
C9_ParallelIndexOrder ==
    [][(op = "Batch" /\ top.pc = "par") =>
          /\ \A j \in 1..Len(top.results) :
                top'.results[j] # top.results[j] =>
                    /\ gen[j - 1].pc # "done" /\ gen'[j - 1].pc = "done"
                    /\ gen'[j - 1].err = NoErr
                    /\ top.results[j] = <<>>
                    /\ top'.results[j] = gen'[j - 1].res
                    /\ \A m \in 1..Len(top.results) :
                          m # j => top'.results[m] = top.results[m]
          /\ \A i \in TaskIds : gen[i].pc = "done" => gen'[i] = gen[i]
          /\ (top'.pc = "done" /\ top'.err = NoErr) =>
                /\ Len(top'.res) = config.Count
                /\ \A j \in 1..Len(top'.res) :
                      gen'[j - 1].pc = "done" /\ top'.res[j] = gen'[j - 1].res]_vars

\* a parallel batch of two succeeded although task 1 drew the first word of
\* the stream: its string is in slot 1
C9_Witness ==
    /\ op = "Batch" /\ top.pc = "done" /\ top.limit > 0 /\ top.err = NoErr
    /\ isCompact /\ config.Length = 1 /\ config.Count = 2
    /\ tape = <<1>> /\ tapeTail = 0
    /\ top.res = <<<<config.Charset.chars[1]>>, <<config.Charset.chars[2]>>>>

\* C10: a batch with a valid configuration that is started with a context
\* already cancelled returns the cancellation error and no strings, for both
\* formats and on both paths, whichever branch the select of Generate takes.
C10_PreCancelledBatch ==
    (op = "Batch" /\ ctxAtStart /\ ~InvalidConfig) =>
        /\ \A i \in TaskIds : ~Succeeded(i)
        /\ top.pc = "done" =>
              /\ top.err.kind = ErrCanceled.kind
              /\ top.res = <<>>

\* a parallel hyphenated batch, cancelled before the call, whose task took
\* the worker slot and failed in a part
C10_Witness ==
    /\ op = "Batch" /\ ctxAtStart /\ top.pc = "done" /\ top.limit > 0
    /\ ~isCompact
    /\ top.err.kind = ErrCanceled.kind /\ top.err.part >= 0
    /\ top.res = <<>>

\* C11: once an OS read has failed the health flag is false for good, every
\* GenerateUint64 call made after that returns the unhealthy error without
\* an OS read, and no Generate call that starts after that returns a string.
C11_EntropyFailClosed ==
    [][/\ ~es.health =>
             /\ ~es'.health
             /\ osPos' = osPos
             /\ es'.generated = es.generated /\ es'.errors = es.errors
       /\ (es.health /\ ~es'.health) => (osPos' = osPos + 1 /\ es'.errors = es.errors + 1)
       /\ \A i \in TaskIds, g \in Parts :
             (~es.health /\ rt[i][g].pc \in {"fill", "redraw"} /\ rt'[i][g] # rt[i][g]) =>
                 /\ rt'[i][g].pc = "done"
                 /\ rt'[i][g].result = <<>>
                 /\ rt'[i][g].err \in {ErrUnhealthy, ErrCanceled}
       /\ \A i \in TaskIds :
             (gen'[i].pc = "done" /\ ~gen'[i].healthAtStart) =>
                 (gen'[i].err # NoErr /\ gen'[i].res = <<>>)]_vars

\* a pull of a stream that started after the failed read returned the
\* unhealthy error, the OS having been read once
C11_Witness ==
    /\ op = "Stream" /\ ~es.health /\ es.errors = 1
    /\ \E i \in TaskIds :
          /\ gen[i].pc = "done" /\ ~gen[i].healthAtStart
          /\ gen[i].err = ErrUnhealthy
    /\ osPos = 1

\* the Generate calls that hold a worker slot
holders == {i \in TaskIds : gen[i].slot}

\* C12: the number of occupied worker slots equals the number of Generate
\* calls that have acquired a slot and not returned, never exceeds the
\* capacity of the pool, and is 0 when no Generate call is in progress, on
\* every exit path.
C12_NoSlotLeak ==
    /\ slots = Cardinality(holders)
    /\ slots <= poolCap
    /\ \A i \in TaskIds : gen[i].slot <=> gen[i].pc = "run"
    /\ (\A i \in TaskIds : gen[i].pc \in {"idle", "done"}) => slots = 0
    /\ top.pc = "done" => slots = 0

\* a Generate call that held the slot was cancelled after a draw, and the
\* slot is free again
C12_Witness ==
    /\ op = "Generate" /\ top.pc = "done"
    /\ top.err.kind = ErrCanceled.kind
    /\ osPos > 0
    /\ slots = 0

\* C13: after Validate has returned config.Workers is in 1..32, for every
\* initial Workers and every number of CPUs of the host.
C13_WorkersInRange ==
    fnPc = "validated" => fnOut.gc.Workers \in 1..32

\* the Generate calls of the current iteration of the stream that returned
returnedCalls == {i \in TaskIds : gen[i].pc = "done"}

\* the pair the stream yields when it finds the context cancelled
CancelPair == [res |-> <<>>, err |-> ErrCanceled]

\* C14, as stated: a consumer that pulls until the sequence ends receives
\* exactly config.Count pairs, each produced by one Generate call, also when
\* the context is cancelled part-way.
C14_ExactlyCountPairs ==
    (op = "Stream" /\ top.pc = "done" /\ ~top.stopped) =>
        /\ Len(top.pairs) = config.Count
        /\ Cardinality(returnedCalls) = config.Count

\* C14: the sequence is finite with at most config.Count pairs, pair j
\* being the result of the j-th sequential Generate call; a consumer that
\* pulls to the end receives exactly config.Count pairs unless a pull finds
\* the context cancelled: that pull yields one pair with the cancellation
\* error, made without a Generate call, and the sequence ends there.
C14_StreamAtMostCount ==
    op = "Stream" =>
        LET d == Cardinality(returnedCalls) IN
        /\ Len(top.pairs) <= config.Count
        /\ returnedCalls = 0..(d - 1)
        /\ Len(top.pairs) \in {d, d + 1}
        /\ \A j \in 1..Len(top.pairs) :
              j <= d => top.pairs[j] = [res |-> gen[j - 1].res, err |-> gen[j - 1].err]
        /\ Len(top.pairs) = d + 1 =>
              /\ top.pc = "done" /\ ctxDone
              /\ top.pairs[d + 1] = CancelPair
        /\ (top.pc = "done" /\ ~top.stopped) =>
              \/ Len(top.pairs) = config.Count /\ d = config.Count
              \/ Len(top.pairs) = d + 1
        /\ (top.pc = "done" /\ ~top.stopped /\ ~ctxDone) => d = config.Count

\* a stream of two whose context was cancelled after the call: the consumer
\* pulled it to the end and received the cancellation pair only
C14_Witness ==
    /\ op = "Stream" /\ top.pc = "done" /\ ~top.stopped
    /\ ~ctxAtStart /\ ~InvalidConfig
    /\ config.Count = 2
    /\ top.pairs = <<CancelPair>>
    /\ returnedCalls = {}

\* C15: Generate call k+1 of a stream is made only after the consumer has
\* accepted pair k, one call at a time, and once yield has returned false no
\* Generate call is made and the entropy counters do not change until the
\* consumer iterates the sequence anew.
C15_StreamLazy ==
    [][op = "Stream" =>
          /\ \A i \in TaskIds :
                (gen[i].pc = "idle" /\ gen'[i].pc # "idle") =>
                    /\ top.pc = "pull" /\ top.i = i
                    /\ Len(top.pairs) = i
                    /\ \A k \in TaskIds : k < i <=> gen[k].pc = "done"
          /\ (osPos' # osPos \/ es' # es) => (top.pc = "gen" /\ ~top.stopped)
          /\ (top.stopped /\ top'.runs = top.runs) =>
                /\ gen' = gen /\ rt' = rt
                /\ osPos' = osPos /\ es' = es
                /\ top' = top]_vars

\* the consumer of a stream of two stopped after the first string: no
\* second call was made
C15_Witness ==
    /\ op = "Stream" /\ top.stopped /\ top.runs = 1
    /\ config.Count = 2 /\ Len(top.pairs) = 1
    /\ top.pairs[1].err = NoErr
    /\ gen[1].pc = "idle"
    /\ osPos >= 1

\* C16: once the sequence of one GenerateStream call has been exhausted,
\* iterating the same sequence value again yields no pair, makes no Generate
\* call and consumes no entropy.
C16_NotRestartable ==
    (op = "Stream" /\ top.runs > 1 /\ top.exhausted) =>
        /\ top.pairs = <<>>
        /\ \A i \in TaskIds : gen[i].pc = "idle"
        /\ osPos = top.osAtRun

\* the characters of group g (0, 1, 2) of a hyphenated string
groupOf(s, g) == SubSeq(s, 7 * g + 1, 7 * g + 6)

\* C17: for every interleaving of the three group generations, group slot g
\* is written only by group task g, as it returns its part, and the string
\* returned holds at the positions 0-5, 7-12 and 14-19 the parts produced by
\* the group tasks 0, 1 and 2.
C17_GroupOrder ==
    [][\A i \in TaskIds :
          (~isCompact /\ gen[i].pc = "run") =>
              /\ \A g \in Parts :
                    (gen'[i].pc = "run" /\ gen'[i].parts[g] # gen[i].parts[g]) =>
                        /\ rt[i][g].pc # "done" /\ rt'[i][g].pc = "done"
                        /\ rt'[i][g].err = NoErr
                        /\ gen[i].parts[g] = <<>>
                        /\ gen'[i].parts[g] = rt'[i][g].result
                        /\ \A h \in Parts : h # g => gen'[i].parts[h] = gen[i].parts[h]
              /\ (gen'[i].pc = "done" /\ gen'[i].err = NoErr) =>
                    /\ Len(gen'[i].res) = 20
                    /\ \A g \in Parts :
                          /\ groupOf(gen'[i].res, g) = rt[i][g].result
                          /\ gen[i].parts[g] = rt[i][g].result]_vars

\* a hyphenated string whose third group was generated first: it took the
\* first word of the stream and stands at the positions 14-19
C17_Witness ==
    /\ op = "Generate" /\ ~isCompact /\ top.pc = "done" /\ top.err = NoErr
    /\ tape = <<1>> /\ tapeTail = 0
    /\ groupOf(top.res[1], 2)[1] = config.Charset.chars[2]
    /\ groupOf(top.res[1], 0)[1] = config.Charset.chars[1]
    /\ groupOf(top.res[1], 1)[1] = config.Charset.chars[1]

\* C18: on every exit path of generateSecureString (success, entropy error,
\* cancellation, rejection cap) all entries of the indices buffer are 0 when
\* the function returns.
C18_IndicesZeroed ==
    \A i \in TaskIds, g \in Parts :
        rt[i][g].pc = "done" =>
            \A j \in 1..Len(rt[i][g].indices) : rt[i][g].indices[j] = 0

\* a step in which Generate call i returns the validation error
genValidationFails(i) ==
    gen[i].pc = "validate" /\ gen'[i].pc = "done" /\ gen'[i].err = ErrInvalidConfig

\* a step in which GenerateBatch returns the validation error
batchValidationFails ==
    op = "Batch" /\ top.pc = "validate" /\ top'.pc = "done"

\* C19, as stated: when Generate or GenerateBatch returns a validation
\* error, the configuration, the statistics, the worker slots and the
\* entropy counters are what they were before the call.
C19_NoSideEffectAtAll ==
    [][((\E i \in TaskIds : genValidationFails(i)) \/ batchValidationFails) =>
          /\ config' = config
          /\ stats' = stats
          /\ slots' = slots /\ es' = es /\ osPos' = osPos]_vars

\* C19: when Generate or GenerateBatch returns a validation error, Type,
\* Length, Count, Charset and Parallel of the configuration, the worker
\* slots, the entropy counters and the count of generated strings are what
\* they were before the call; Workers has been set to the number of CPUs if
\* it was not positive and to 32 if it was above 32; Generate has added one
\* to the error count of the generator and GenerateBatch has not.
C19_ValidationFailureEffects ==
    [][/\ \A i \in TaskIds :
             genValidationFails(i) =>
                 /\ config' = [config EXCEPT !.Workers =
                                  IF @ <= 0 THEN numCPU ELSE IF @ > 32 THEN 32 ELSE @]
                 /\ stats' = [stats EXCEPT !.errors = @ + 1]
                 /\ slots' = slots /\ es' = es /\ osPos' = osPos
       /\ batchValidationFails =>
             /\ config' = [config EXCEPT !.Workers =
                              IF @ <= 0 THEN numCPU ELSE IF @ > 32 THEN 32 ELSE @]
             /\ stats' = stats
             /\ slots' = slots /\ es' = es /\ osPos' = osPos
             /\ top'.err = ErrInvalidConfig /\ top'.res = <<>>]_vars

\* Generate has returned the validation error for a configuration whose
\* Workers was 0: Workers is the number of CPUs and one error is counted
C19_Witness ==
    /\ op = "Generate" /\ top.pc = "done" /\ top.err = ErrInvalidConfig
    /\ config.Workers = HostCPUs
    /\ stats.errors = 1 /\ stats.generated = 0
    /\ slots = 0 /\ osPos = 0

\* C20: the legacy generateRandomString(length, charset) returns an error
\* for length <= 0 and for an empty charset; otherwise, when no draw of the
\* random source fails, it returns no error and a string of exactly length
\* bytes, each of which occurs in charset; when a draw fails it returns an
\* error and no string.
C20_LegacyRandomString ==
    fnPc = "legacy" =>
        LET length == fnIn.gc.Length
            charset == fnIn.raw
            drawFails == fnIn.draws.failAt >= 1 /\ fnIn.draws.failAt <= length
        IN IF length <= 0 \/ Len(charset) = 0
           THEN fnOut.errs # <<>> /\ fnOut.str = <<>>
           ELSE IF drawFails
           THEN fnOut.errs # <<>> /\ fnOut.str = <<>>
           ELSE /\ fnOut.errs = <<>>
                /\ Len(fnOut.str) = length
                /\ Range(fnOut.str) \subseteq Range(charset)

\* a string of 1000 bytes over the 62 alphanumeric symbols, starting with
\* the last symbol
C20_Witness ==
    /\ fnPc = "legacy" /\ fnOut.errs = <<>>
    /\ fnIn.gc.Length = 1000 /\ Len(fnIn.raw) = 62
    /\ Len(fnOut.str) = 1000
    /\ fnOut.str[1] = 57 /\ fnOut.str[1000] = 97
\* the letters and the digits
Alphanumeric == (48..57) \cup (65..90) \cup (97..122)

\* C21: the legacy generateCompactString never rejects a length: a length
\* <= 0 gives a string of the default length 15 and a length > 0 a string of
\* exactly that many characters, all alphanumeric (the only error is that of
\* a failed random draw); generateString returns an error and no string for
\* every type other than "hyphenated" and "compact".
C21_LegacyCompactAndTypes ==
    fnPc = "legacyString" =>
       LET length == fnIn.gc.Length
           n == IF length <= 0 THEN 15 ELSE length
       IN /\ fnIn.otype = "compact" =>
                IF fnIn.draws.failAt \in 1..n
                THEN fnOut.errs = <<ErrLegacyRandom>> /\ fnOut.str = <<>>
                ELSE /\ fnOut.errs = <<>>
                     /\ Len(fnOut.str) = n
                     /\ Range(fnOut.str) \subseteq Alphanumeric
          /\ fnIn.otype \notin {"hyphenated", "compact"} =>
                fnOut.errs # <<>> /\ fnOut.str = <<>>
          /\ fnIn.otype = "hyphenated" /\ fnOut.errs = <<>> =>
                HyphenatedFormat(fnOut.str, [chars |-> alphanumericChars])

\* a compact string of the default length returned for a length of 0
C21_Witness ==
    /\ fnPc = "legacyString" /\ fnIn.otype = "compact"
    /\ fnIn.gc.Length = 0
    /\ fnOut.errs = <<>> /\ Len(fnOut.str) = 15
    /\ Cardinality(Range(fnOut.str)) > 1

\* the Generate calls that are executing
running == {i \in TaskIds : gen[i].pc \in {"validate", "select", "run"}}

\* C22: in the parallel path of GenerateBatch the tasks executing at the
\* same time never exceed config.Workers, whatever the number of strings (the
\* tasks executing and the limit up to which g.Go lets their number grow are
\* at most config.Workers), and the tasks holding a worker slot never exceed
\* the capacity of the pool.
C22_AtMostWorkers ==
    (op = "Batch" /\ top.pc = "par") =>
       /\ Cardinality(running) <= config.Workers
       /\ top.limit <= config.Workers
       /\ Cardinality(holders) <= poolCap /\ slots <= poolCap

\* C23: in the parallel path the error of the errgroup is the error of the
\* first task that returned one and no later error replaces it; GenerateBatch
\* returns it with no results; every task started after that failure never
\* reads the entropy source and returns the cancellation error.
C23_FirstErrorWins ==
    (op = "Batch" /\ top.limit > 0) =>
       /\ \A i \in TaskIds :
             gen[i].lateStart =>
                /\ ~gen[i].drew
                /\ gen[i].pc = "done" => gen[i].err.kind = "context canceled"
       /\ IF top.firstFailed = 0 - 1
          THEN top.gerr = NoErr
          ELSE /\ gen[top.firstFailed].pc = "done"
               /\ gen[top.firstFailed].err # NoErr
               /\ top.gerr = [gen[top.firstFailed].err EXCEPT !.task = top.firstFailed]
               /\ top.pc = "done" => (top.err = top.gerr /\ top.res = <<>>)

\* a task failed on an entropy read, the next one was started afterwards
\* and returned the cancellation error, and the batch returned the first
\* error
C23_Witness ==
    /\ op = "Batch" /\ top.limit > 0 /\ top.pc = "done"
    /\ top.firstFailed = 0
    /\ top.err.kind = "failed to generate random bytes" /\ top.err.task = 0
    /\ gen[1].lateStart /\ gen[1].pc = "done"
    /\ gen[1].err.kind = "context canceled"

\* C29: during a parallel GenerateBatch no step of a worker task writes the
\* shared configuration: config.Workers and the other fields keep their
\* values from the start of the parallel path on.
C29_ConfigReadOnly ==
    [][(op = "Batch" /\ top.pc = "par") => config' = config]_vars

\* C25 as claimed: for every CharacterSet returned by NewCharacterSet and
\* every index i, At(i) returns a symbol of the set, without an
\* out-of-bounds read or a division by zero.
C25_AtTotal ==
    fnPc = "charset" =>
       \A i \in Words : At(fnOut.cs, i) # Panic /\ At(fnOut.cs, i) \in CharsOf(fnOut.cs)

\* C25, amended: for every CharacterSet of at least one symbol returned by
\* NewCharacterSet and every index i, the index At computes lies in
\* 0..len-1 and At(i) returns a symbol of the set; for the empty set
\* NewCharacterSet returns for "", At panics for every index.
C25_AtTotalNonEmpty ==
    fnPc = "charset" =>
       LET cs == fnOut.cs
           n == Len(cs.chars)
       IN \A i \in Words :
             IF n = 0 THEN cs.mask = 0 /\ At(cs, i) = Panic
             ELSE /\ atIndex(cs, i) \in 0..(n - 1)
                  /\ At(cs, i) \in CharsOf(cs)

\* a set of three symbols (no mask), indexed beyond its length
C25_Witness ==
    /\ fnPc = "charset" /\ fnIn.raw = <<97, 98, 97, 99, 98>>
    /\ fnOut.cs.mask = 0
    /\ At(fnOut.cs, 5) = 99 /\ At(fnOut.cs, MaxUint) \in {97, 98, 99}

\* the positions of raw holding a byte for the first time
firstPositions(raw) == {j \in 1..Len(raw) : \A k \in 1..(j - 1) : raw[k] # raw[j]}

\* C26: NewCharacterSet(raw) returns the bytes of raw with every later
\* duplicate removed, in first-seen order: no symbol twice, every byte of raw
\* once, the m-th symbol being the byte of the m-th first occurrence, at most
\* 256 symbols; and no append of the deduplication wrote an element of the
\* shared array before the loop had read it.
C26_DedupFirstSeen ==
    fnPc = "charset" =>
       LET raw == fnIn.raw
           chars == fnOut.cs.chars
           P == firstPositions(raw)
       IN /\ Len(chars) = Cardinality(P)
          /\ \A m \in 1..Len(chars) :
                \E j \in P : /\ Cardinality({k \in P : k <= j}) = m
                             /\ chars[m] = raw[j]
          /\ \A a, b \in 1..Len(chars) : a # b => chars[a] # chars[b]
          /\ Range(chars) = Range(raw)
          /\ Len(chars) <= 256
          /\ ~dedupEnd(raw).early

\* "abacb" becomes "abc": the third and the fifth byte are dropped and c
\* is moved down over the second a
C26_Witness ==
    /\ fnPc = "charset" /\ fnIn.raw = <<97, 98, 97, 99, 98>>
    /\ fnOut.cs.chars = <<97, 98, 99>>
    /\ dedupEnd(fnIn.raw).arr = <<97, 98, 99, 99, 98>>

\* the powers of two from 2 to 256
PowersOfTwo == {2, 4, 8, 16, 32, 64, 128, 256}

\* C27: for every length n in 1..256 of the set the mask is non-zero exactly
\* when n is a power of two >= 2, and then it is n - 1; a set of one symbol
\* takes the modulo path with its rejection test; on both paths
\* At(i) = chars[i mod n] for every index i, and a word selected through
\* the mask is never rejected.
C27_MaskAgreesWithModulo ==
    LET cs == fnOut.cs
        n == Len(cs.chars)
    IN /\ (fnPc = "charset" /\ n \in 1..256) =>
             /\ cs.mask # 0 <=> n \in PowersOfTwo
             /\ cs.mask # 0 => cs.mask = n - 1
             /\ \A i \in Words : At(cs, i) = cs.chars[(i % n) + 1]
       /\ fnPc = "selected" =>
             IF cs.mask # 0
             THEN fnOut.sel.st = "ok" /\ fnOut.sel.result = <<cs.chars[(fnOut.word % n) + 1]>>
             ELSE /\ n \notin PowersOfTwo
                  /\ fnOut.sel.st = "ok" => fnOut.sel.result = <<cs.chars[(fnOut.word % n) + 1]>>

\* a set of one symbol has no mask and rejects the largest word
C27_Witness ==
    /\ fnPc = "selected" /\ Len(fnOut.cs.chars) = 1 /\ fnOut.cs.mask = 0
    /\ fnOut.word = MaxUint /\ fnOut.sel.st = "redraw"

\* C28: the counters of the entropy source never decrease and are exact:
\* a step that makes a successful read of 8 bytes adds 8 to the bytes
\* generated and nothing to the errors, a step that makes a failed read adds
\* 1 to the errors and nothing to the bytes, and any other step, a call
\* rejected because the source is unhealthy included, changes neither; so
\* the bytes generated are 8 times the successful reads and the errors the
\* failed ones.
C28_EntropyCounters ==
    [][/\ es'.generated >= es.generated /\ es'.errors >= es.errors
       /\ IF osPos' = osPos
          THEN es'.generated = es.generated /\ es'.errors = es.errors
          ELSE /\ osPos' = osPos + 1
               /\ \/ es'.generated = es.generated + 8 /\ es'.errors = es.errors
                                                       /\ es'.health = es.health
                  \/ es'.generated = es.generated /\ es'.errors = es.errors + 1
                                                  /\ ~es'.health
       /\ es'.generated = 8 * (osPos' - es'.errors)]_vars

\* after a successful and a failed read, a later call was rejected by the
\* unhealthy source and left the counters at 8 bytes and 1 error
C28_Witness ==
    /\ es.generated = 8 /\ es.errors = 1 /\ osPos = 2
    /\ \E i \in TaskIds : gen[i].pc = "done" /\ gen[i].err.kind = "entropy source is unhealthy"

\* C24: once the caller's context is cancelled the Generate or
\* GenerateBatch call in progress eventually returns, every Generate call
\* it made having returned by then; and the step a Generate call takes
\* while it waits in its select with the pool full and the context cancelled
\* is to return the context's error.
C24_CancelledCallsReturn ==
    /\ ctxDone ~> top.pc = "done"
    /\ [](top.pc = "done" => running = {})
    /\ [][\A i \in TaskIds :
             (ctxDone /\ gen[i].pc = "select" /\ slots >= poolCap /\ gen'[i] # gen[i])
                => (gen'[i].pc = "done" /\ gen'[i].err = ErrCanceled)]_vars

\* a Generate call on a pool without a slot, cancelled while it waited,
\* returned the context's error
C24_Witness ==
    /\ op = "Generate" /\ poolCap = 0
    /\ ctxDone /\ ~ctxAtStart
    /\ top.pc = "done" /\ top.err = ErrCanceled
    /\ ~gen[0].drew

\* C30: with a pool of at least one slot and a context that is never
\* cancelled, some goroutine of a call that has not returned can always take
\* a step, and the call eventually returns.
C30_DeadlockFree ==
    /\ []((poolCap >= 1 /\ ~ctxDone /\ top.pc # "done") => ENABLED Progress)
    /\ <>(poolCap = 0 \/ ctxDone \/ top.pc = "done")

\* a parallel batch of two strings with two workers and one slot returned
\* its results, the context never cancelled
C30_Witness ==
    /\ op = "Batch" /\ config.Parallel /\ config.Workers = 2 /\ poolCap = 1
    /\ ~ctxDone
    /\ top.pc = "done" /\ top.err = NoErr /\ Len(top.res) = 2

\* C31: after Grow(n) returns, the capacity of the buffer minus its length
\* is at least n and its content is unchanged, for every buffer and every
\* n >= 0.
C31_GrowMakesRoom ==
    fnPc = "grown" =>
       /\ fnOut.bb.cap - Len(fnOut.bb.bytes) >= fnIn.n
       /\ fnOut.bb.bytes = fnIn.bb.bytes

====
